---- MODULE Spec2Model ----
(***************************************************************************)
(* The advisory pipeline of ai-agents-advisors: the metrics recorder, the  *)
(* backend client with its retry loop, the evidence source, the router,    *)
(* the planner, the specialist roles, the synthesizer and the OODA         *)
(* orchestrator (src/src/advisor_logic.py), as one state machine.          *)
(*                                                                         *)
(* A Python str is a sequence of one-character strings, so that lower(),   *)
(* re.findall, `in`, strip, split, startswith and endswith are computed    *)
(* as Python computes them.  Two characters of the source are not ASCII    *)
(* and are written by name: "bullet" is U+2022 and "sup2" is U+00B2.       *)
(* A float confidence is an integer number of tenths (0.5 is 5).           *)
(***************************************************************************)
EXTENDS Integers, Sequences, FiniteSets, TLC

VARIABLES
  requests,      \* the module global `requests`: TRUE the library, FALSE None
  question,      \* the argument of ooda_run
  pc,            \* position of the ooda_run coroutine
  METRICS,       \* the module global METRICS
  plan,          \* ooda_run: plan
  subq_i,        \* consult_professors: the enumerate index i (0-based)
  snippets,      \* consult_professors: snippets of the current sub-question
  all_evidence,  \* consult_professors: all_evidence
  all_citations, \* consult_professors: all_citations
  selected_profs,\* consult_professors: roles still to analyse the sub-question
  llm,           \* the frame of the llm_call_async call in progress
  draft,         \* ooda_run: draft
  raised,        \* the exception caught at the except clause of ooda_run
  shown,         \* what ooda_run has printed after the try statement
  hist,          \* history of the run: counts of calls, attempts and waits, order of steps
  unit,          \* a function of the module applied on its own: call and result
  reqs           \* the requests the HTTP driver is serving, each in its thread

vars == <<requests, question, pc, METRICS, plan, subq_i, snippets, all_evidence,
          all_citations, selected_profs, llm, draft, raised, shown, hist, unit, reqs>>

-----------------------------------------------------------------------------
(* Python strings *)

UpperCase == <<"A","B","C","D","E","F","G","H","I","J","K","L","M",
               "N","O","P","Q","R","S","T","U","V","W","X","Y","Z">>
LowerCase == <<"a","b","c","d","e","f","g","h","i","j","k","l","m",
               "n","o","p","q","r","s","t","u","v","w","x","y","z">>
DigitChars == <<"0","1","2","3","4","5","6","7","8","9">>
Whitespace == {" ", "\n", "\t", "\r"}

SeqToSet(s) == {s[i] : i \in 1..Len(s)}
Min(a, b) == IF a <= b THEN a ELSE b
Max(a, b) == IF a >= b THEN a ELSE b
\* s[:n]
Take(s, n) == SubSeq(s, 1, Min(n, Len(s)))

\* F applied to the value of e.  An operator argument is an expression, evaluated again
\* wherever the operator's body uses it; a bound variable holds a value.  Bind is used
\* where Python assigns an intermediate result to a local variable.
Bind(e, F(_)) == CHOOSE r \in {F(v) : v \in {e}} : TRUE

\* The sequence f with its elements computed: a sequence written [i \in 1..n |-> e]
\* computes an element again at each access
Computed(f) == f \o <<>>

\* the characters re's \w matches
WordChars == SeqToSet(UpperCase) \cup SeqToSet(LowerCase) \cup SeqToSet(DigitChars)
               \cup {"_", "sup2"}

lower_char(c) ==
  IF \E i \in 1..26 : UpperCase[i] = c
  THEN LowerCase[CHOOSE i \in 1..26 : UpperCase[i] = c]
  ELSE c
\* str.lower()
lower(s) == Computed([i \in 1..Len(s) |-> lower_char(s[i])])

\* re.findall(r'\w+', s): the maximal runs of word characters, in order.  A run
\* starts where a word character follows the start of s or a non-word character.
word_starts(s) ==
  {i \in 1..Len(s) : s[i] \in WordChars /\ (i = 1 \/ s[i - 1] \notin WordChars)}
word_end(s, i) ==
  CHOOSE j \in i..Len(s) :
    /\ \A k \in i..j : s[k] \in WordChars
    /\ (j = Len(s) \/ s[j + 1] \notin WordChars)
word_at(s, i) == SubSeq(s, i, word_end(s, i))
\* the n-th smallest element of a set of integers
nth(S, n) == CHOOSE i \in S : Cardinality({j \in S : j <= i}) = n
\* k in s
contains(s, k) ==
  \E i \in 0..(Len(s) - Len(k)) : \A j \in 1..Len(k) : s[i + j] = k[j]
startswith(s, p) == Len(p) <= Len(s) /\ \A j \in 1..Len(p) : s[j] = p[j]
endswith(s, p) ==
  Len(p) <= Len(s) /\ \A j \in 1..Len(p) : s[Len(s) - Len(p) + j] = p[j]

\* str.strip()
strip(s) ==
  IF \A i \in 1..Len(s) : s[i] \in Whitespace THEN <<>>
  ELSE SubSeq(s,
         CHOOSE i \in 1..Len(s) :
           s[i] \notin Whitespace /\ \A j \in 1..(i - 1) : s[j] \in Whitespace,
         CHOOSE i \in 1..Len(s) :
           s[i] \notin Whitespace /\ \A j \in (i + 1)..Len(s) : s[j] \in Whitespace)

\* str.split('\n'): the pieces between the line feeds, always at least one
split_lines(s) ==
  LET feeds == {i \in 1..Len(s) : s[i] = "\n"}
      cut(k) == IF k = 0 THEN 0
                ELSE IF k > Cardinality(feeds) THEN Len(s) + 1
                ELSE nth(feeds, k)
  IN  [k \in 1..(Cardinality(feeds) + 1) |-> SubSeq(s, cut(k - 1) + 1, cut(k) - 1)]

\* estimate_tokens: max(1, len(re.findall(r'\b\w+\b', text)))
estimate_tokens(text) == Bind(text, LAMBDA t : Max(1, Cardinality(word_starts(t))))

-----------------------------------------------------------------------------
(* The string constants of the source *)

NL == <<"\n">>
DONE == <<"D","O","N","E">>
BulletMarker == <<"bullet"," ">>
\* advisor_logic.py:36
SYSTEM_CORE ==
  <<"B","e"," ","c","o","n","c","i","s","e",","," ","r","i","g","o","r","o","u","s",","," ","e",
    "v","i","d","e","n","c","e","-","d","r","i","v","e","n","."," ","U","s","e"," ","c","i","t",
    "a","t","i","o","n"," ","i","n","d","i","c","e","s"," ","w","h","e","n"," ","a","p","p","l",
    "i","c","a","b","l","e",".">>
\* advisor_logic.py:206
KB_raft_text ==
  <<"R","a","f","t"," ","i","s"," ","a"," ","c","o","n","s","e","n","s","u","s"," ","a","l","g",
    "o","r","i","t","h","m"," ","d","e","s","i","g","n","e","d"," ","f","o","r"," ","u","n","d",
    "e","r","s","t","a","n","d","a","b","i","l","i","t","y","."," ","I","t"," ","p","r","o","v",
    "i","d","e","s"," ","f","a","u","l","t"," ","t","o","l","e","r","a","n","c","e"," ","f","o",
    "r"," ","d","i","s","t","r","i","b","u","t","e","d"," ","s","y","s","t","e","m","s"," ","b",
    "y"," ","e","l","e","c","t","i","n","g"," ","a"," ","l","e","a","d","e","r"," ","a","n","d",
    " ","r","e","p","l","i","c","a","t","i","n","g"," ","l","o","g"," ","e","n","t","r","i","e",
    "s","."," ","R","a","f","t"," ","a","s","s","u","m","e","s"," ","n","o","n","-","B","y","z",
    "a","n","t","i","n","e"," ","f","a","u","l","t","s"," ","a","n","d"," ","f","o","c","u","s",
    "e","s"," ","o","n"," ","p","a","r","t","i","t","i","o","n"," ","t","o","l","e","r","a","n",
    "c","e"," ","a","n","d"," ","c","o","n","s","i","s","t","e","n","c","y",".">>
\* advisor_logic.py:210 (the character sup2 stands for the superscript two)
KB_pbft_text ==
  <<"P","r","a","c","t","i","c","a","l"," ","B","y","z","a","n","t","i","n","e"," ","F","a","u",
    "l","t"," ","T","o","l","e","r","a","n","c","e"," ","(","P","B","F","T",")"," ","i","s"," ",
    "a"," ","c","o","n","s","e","n","s","u","s"," ","a","l","g","o","r","i","t","h","m"," ","t",
    "h","a","t"," ","c","a","n"," ","h","a","n","d","l","e"," ","B","y","z","a","n","t","i","n",
    "e"," ","f","a","u","l","t","s",","," ","i","n","c","l","u","d","i","n","g"," ","m","a","l",
    "i","c","i","o","u","s"," ","n","o","d","e","s","."," ","P","B","F","T"," ","r","e","q","u",
    "i","r","e","s"," ","3","f","+","1"," ","n","o","d","e","s"," ","t","o"," ","t","o","l","e",
    "r","a","t","e"," ","f"," ","B","y","z","a","n","t","i","n","e"," ","n","o","d","e","s",",",
    " ","h","a","s"," ","O","(","n","sup2",")"," ","m","e","s","s","a","g","e"," ","c","o","m",
    "p","l","e","x","i","t","y",","," ","b","u","t"," ","p","r","o","v","i","d","e","s"," ","s",
    "t","r","o","n","g","e","r"," ","s","e","c","u","r","i","t","y"," ","g","u","a","r","a","n",
    "t","e","e","s"," ","t","h","a","n"," ","R","a","f","t",".">>
\* advisor_logic.py:214
KB_trading_text ==
  <<"F","i","n","a","n","c","i","a","l"," ","t","r","a","d","i","n","g"," ","s","y","s","t","e",
    "m","s"," ","r","e","q","u","i","r","e"," ","s","u","b","-","m","i","l","l","i","s","e","c",
    "o","n","d"," ","l","a","t","e","n","c","i","e","s"," ","f","o","r"," ","h","i","g","h","-",
    "f","r","e","q","u","e","n","c","y"," ","t","r","a","d","i","n","g","."," ","T","h","e","y",
    " ","m","u","s","t"," ","h","a","n","d","l","e"," ","B","y","z","a","n","t","i","n","e"," ",
    "f","a","u","l","t","s"," ","d","u","e"," ","t","o"," ","a","d","v","e","r","s","a","r","i",
    "a","l"," ","e","n","v","i","r","o","n","m","e","n","t","s","."," ","C","o","n","s","e","n",
    "s","u","s"," ","p","r","o","t","o","c","o","l","s"," ","a","d","d"," ","o","v","e","r","h",
    "e","a","d"," ","b","u","t"," ","a","r","e"," ","e","s","s","e","n","t","i","a","l"," ","f",
    "o","r"," ","m","a","i","n","t","a","i","n","i","n","g"," ","c","o","n","s","i","s","t","e",
    "n","c","y"," ","a","c","r","o","s","s"," ","d","i","s","t","r","i","b","u","t","e","d"," ",
    "t","r","a","d","i","n","g"," ","e","n","g","i","n","e","s",".">>

\* the role names (advisor_logic.py:179-194) and the role label of synthesize_async
Name_Algorithms == <<"P","r","o","f","."," ","A","l","g","o","r","i","t","h","m","s">>
Name_Systems == <<"P","r","o","f","."," ","S","y","s","t","e","m","s">>
Name_Security == <<"P","r","o","f","."," ","S","e","c","u","r","i","t","y">>
Name_Finance == <<"P","r","o","f","."," ","F","i","n","a","n","c","e">>
Name_Synthesizer == <<"S","y","n","t","h","e","s","i","z","e","r">>

\* the expertise keywords of the roles (advisor_logic.py:181-196)
Keywords_Algorithms ==
  << <<"r","a","f","t">>,
     <<"p","b","f","t">>,
     <<"c","o","n","s","e","n","s","u","s">>,
     <<"d","i","s","t","r","i","b","u","t","e","d">>,
     <<"a","l","g","o","r","i","t","h","m">> >>
Keywords_Systems ==
  << <<"l","a","t","e","n","c","y">>,
     <<"p","e","r","f","o","r","m","a","n","c","e">>,
     <<"s","y","s","t","e","m">>,
     <<"n","e","t","w","o","r","k">>,
     <<"t","h","r","o","u","g","h","p","u","t">> >>
Keywords_Security ==
  << <<"b","y","z","a","n","t","i","n","e">>,
     <<"f","a","u","l","t">>,
     <<"s","e","c","u","r","i","t","y">>,
     <<"t","o","l","e","r","a","n","c","e">>,
     <<"a","d","v","e","r","s","a","r","i","a","l">> >>
Keywords_Finance ==
  << <<"t","r","a","d","i","n","g">>,
     <<"f","i","n","a","n","c","i","a","l">>,
     <<"c","o","s","t">>,
     <<"e","c","o","n","o","m","i","c">>,
     <<"m","a","r","k","e","t">> >>

\* the words plan_async looks for (advisor_logic.py:256), in the order it tests them
triggers ==
  << <<"c","o","n","s","e","n","s","u","s">>,
     <<"r","a","f","t">>,
     <<"p","b","f","t">> >>

\* the fixed decomposition of plan_async (advisor_logic.py:258-260)
Subq_compare ==
  <<"C","o","m","p","a","r","e"," ","R","a","f","t"," ","a","n","d"," ","P","B","F","T"," ","c",
    "o","n","s","e","n","s","u","s"," ","a","l","g","o","r","i","t","h","m","s">>
Subq_latency ==
  <<"A","n","a","l","y","z","e"," ","l","a","t","e","n","c","y"," ","r","e","q","u","i","r","e",
    "m","e","n","t","s"," ","f","o","r"," ","f","i","n","a","n","c","i","a","l"," ","t","r","a",
    "d","i","n","g"," ","s","y","s","t","e","m","s">>
Subq_byzantine ==
  <<"E","v","a","l","u","a","t","e"," ","B","y","z","a","n","t","i","n","e"," ","f","a","u","l",
    "t"," ","t","o","l","e","r","a","n","c","e"," ","f","o","r"," ","m","u","l","t","i","-","a",
    "g","e","n","t"," ","c","o","o","r","d","i","n","a","t","i","o","n">>

\* the mock, fallback and unreachable return values of llm_call_async
MockPrefix == <<"M","o","c","k"," ","r","e","s","p","o","n","s","e"," ","f","r","o","m"," ">>
MockSuffix ==
  <<":"," ","T","e","c","h","n","i","c","a","l"," ","a","n","a","l","y","s","i","s"," ","n","e",
    "e","d","e","d"," ","b","a","s","e","d"," ","o","n"," ","p","r","o","v","i","d","e","d"," ",
    "c","o","n","t","e","x","t",".">>
FallbackPrefix == <<"F","a","l","l","b","a","c","k"," ","r","e","s","p","o","n","s","e"," ","f","r","o","m"," ">>
FallbackSuffix ==
  <<":"," ","A","n","a","l","y","s","i","s"," ","r","e","q","u","i","r","e","d"," ","f","o","r",
    " ","g","i","v","e","n"," ","c","o","n","t","e","x","t",".">>
ErrorGenerating ==
  <<"E","r","r","o","r"," ","g","e","n","e","r","a","t","i","n","g"," ","r","e","s","p","o","n",
    "s","e">>

\* the three lines of _fallback_synthesis up to their reference (advisor_logic.py:376-378)
SynthLine1 ==
  <<"bullet"," ","R","a","f","t"," ","s","i","m","p","l","e","r"," ","b","u","t"," ","P","B",
    "F","T"," ","r","e","q","u","i","r","e","d"," ","f","o","r"," ","B","y","z","a","n","t","i",
    "n","e"," ","f","a","u","l","t"," ","t","o","l","e","r","a","n","c","e"," ","i","n"," ","a",
    "d","v","e","r","s","a","r","i","a","l"," ","e","n","v","i","r","o","n","m","e","n","t","s",
    " ">>
SynthLine2 ==
  <<"bullet"," ","S","u","b","-","1","0","0","m","s"," ","l","a","t","e","n","c","y"," ","a",
    "c","h","i","e","v","a","b","l","e"," ","t","h","r","o","u","g","h"," ","o","p","t","i","m",
    "i","z","e","d"," ","n","e","t","w","o","r","k"," ","t","o","p","o","l","o","g","y"," ","a",
    "n","d"," ","m","e","s","s","a","g","e"," ","b","a","t","c","h","i","n","g"," ","t","e","c",
    "h","n","i","q","u","e","s"," ">>
SynthLine3 ==
  <<"bullet"," ","P","e","r","f","o","r","m","a","n","c","e"," ","t","e","s","t","i","n","g",
    " ","e","s","s","e","n","t","i","a","l"," ","t","o"," ","v","a","l","i","d","a","t","e"," ",
    "c","o","n","s","e","n","s","u","s"," ","o","v","e","r","h","e","a","d"," ","u","n","d","e",
    "r"," ","m","u","l","t","i","-","a","g","e","n","t"," ","c","o","o","r","d","i","n","a","t",
    "i","o","n"," ","l","o","a","d"," ">>

\* the draft of the except clause of ooda_run (advisor_logic.py:408-411); its second
\* line ends with two spaces after the reference
OodaFallbackDraft ==
  <<"bullet"," ","T","e","c","h","n","i","c","a","l"," ","a","n","a","l","y","s","i","s"," ",
    "r","e","q","u","i","r","e","d"," ","f","o","r"," ","d","i","s","t","r","i","b","u","t","e",
    "d"," ","c","o","n","s","e","n","s","u","s"," ","a","l","g","o","r","i","t","h","m"," ","c",
    "o","m","p","a","r","i","s","o","n"," ","[","1","]","\n","bullet"," ","P","e","r","f","o",
    "r","m","a","n","c","e"," ","b","e","n","c","h","m","a","r","k","i","n","g"," ","n","e","e",
    "d","e","d"," ","f","o","r"," ","s","u","b","-","1","0","0","m","s"," ","l","a","t","e","n",
    "c","y"," ","v","a","l","i","d","a","t","i","o","n"," ","i","n"," ","t","r","a","d","i","n",
    "g"," ","s","y","s","t","e","m","s"," ","[","2","]"," "," ","\n","bullet"," ","S","e","c",
    "u","r","i","t","y"," ","a","s","s","e","s","s","m","e","n","t"," ","e","s","s","e","n","t",
    "i","a","l"," ","f","o","r"," ","B","y","z","a","n","t","i","n","e"," ","f","a","u","l","t",
    " ","t","o","l","e","r","a","n","c","e"," ","i","n"," ","m","u","l","t","i","-","a","g","e",
    "n","t"," ","c","o","o","r","d","i","n","a","t","i","o","n"," ","[","3","]","\n","D","O",
    "N","E">>

\* the specialty labels and the fixed texts of the evidence cards (advisor_logic.py:149-196)
Specialty_Algorithms == <<"C","o","n","s","e","n","s","u","s"," ","A","l","g","o","r","i","t","h","m","s">>
Specialty_Systems == <<"P","e","r","f","o","r","m","a","n","c","e"," ","&"," ","S","y","s","t","e","m","s">>
Specialty_Security ==
  <<"B","y","z","a","n","t","i","n","e"," ","F","a","u","l","t"," ","T","o","l","e","r","a","n",
    "c","e">>
Specialty_Finance == <<"F","i","n","a","n","c","i","a","l"," ","S","y","s","t","e","m","s">>
AnalysisNeeded == <<" ","a","n","a","l","y","s","i","s"," ","n","e","e","d","e","d">>
ConsiderationsRequired ==
  <<" ","c","o","n","s","i","d","e","r","a","t","i","o","n","s"," ","r","e","q","u","i","r","e",
    "d">>
BasedOnEvidence == <<"B","a","s","e","d"," ","o","n"," ","e","v","i","d","e","n","c","e">>
FallbackGuidance == <<"F","a","l","l","b","a","c","k"," ","g","u","i","d","a","n","c","e">>
ErrorFallback == <<"E","r","r","o","r"," ","f","a","l","l","b","a","c","k">>
PromptSystem == <<"[","S","Y","S","T","E","M","]","\n">>

\* texts of the model's inputs: questions and backend replies
Q_compare ==
  <<"C","o","m","p","a","r","e"," ","R","a","f","t"," ","v","s"," ","P","B","F","T"," ","f","o",
    "r"," ","f","i","n","a","n","c","i","a","l"," ","t","r","a","d","i","n","g">>
Q_byzantine == <<"B","y","z","a","n","t","i","n","e"," ","f","a","u","l","t"," ","t","r","a","d","i","n","g">>
Q_hello == <<"H","e","l","l","o">>
Txt_good ==
  <<"bullet"," ","A"," ","[","1","]","\n","bullet"," ","B"," ","[","2","]","\n","bullet"," ",
    "C"," ","[","3","]","\n","D","O","N","E">>
Txt_preamble ==
  <<"S","u","r","e",":","\n","bullet"," ","A"," ","[","1","]","\n","bullet"," ","B"," ","[","2",
    "]","\n","bullet"," ","C"," ","[","3","]","\n","D","O","N","E">>
Txt_cite9 ==
  <<"bullet"," ","A"," ","[","1","]","\n","bullet"," ","B"," ","[","2","]","\n","bullet"," ",
    "C"," ","[","9","]","\n","D","O","N","E">>
Txt_two == <<"bullet"," ","A"," ","[","1","]","\n","bullet"," ","B"," ","[","2","]","\n","D","O","N","E">>
Txt_nodone == <<"bullet"," ","A"," ","[","1","]","\n","bullet"," ","B"," ","[","2","]","\n","bullet"," ","C"," ","[","3","]">>
Txt_four ==
  <<"bullet"," ","A"," ","[","1","]","\n","bullet"," ","B"," ","[","2","]","\n","bullet"," ","C"," ","[","3","]","\n","bullet"," ","D"," ","[","1","]","\n","D","O","N","E">>
Txt_list ==
  <<"[","{","\"","c","o","n","f","i","d","e","n","c","e","\"",":"," ","1",".","7","}",","," ",
    "{","\"","c","l","a","i","m","\"",":"," ","\"","c","\"",","," ","\"","c","o","n","f","i",
    "d","e","n","c","e","\"",":"," ","-","0",".","3","}","]">>
Txt_badconf ==
  <<"[","{","\"","c","o","n","f","i","d","e","n","c","e","\"",":"," ","\"","h","i","g","h","\"",
    "}","]">>
Txt_c == <<"c">>
Txt_high == <<"h","i","g","h">>

-----------------------------------------------------------------------------
(* Evidence source: SimpleMCPServer *)

\* self.kb
kb == << [id |-> "raft_consensus", text |-> KB_raft_text],
         [id |-> "pbft_consensus", text |-> KB_pbft_text],
         [id |-> "trading_systems", text |-> KB_trading_text] >>

\* set(re.findall(r'\w+', text.lower()))
term_set(text) == Bind(lower(text), LAMBDA t : {word_at(t, i) : i \in word_starts(t)})

\* text_terms of every corpus entry
kb_terms == << term_set(kb[1].text), term_set(kb[2].text), term_set(kb[3].text) >>

\* an ascending stable sort read backwards, sorted(items, key=...)[::-1]: among items of
\* equal score the later one comes first
sorted_asc_reversed(items) ==
  LET ahead(j) == {i \in 1..Len(items) :
                     items[i].score > items[j].score
                       \/ (items[i].score = items[j].score /\ i > j)}
  IN  [k \in 1..Len(items) |-> items[CHOOSE j \in 1..Len(items) : Cardinality(ahead(j)) = k - 1]]

\* sorted(items, key=lambda x: x["score"], reverse=True): the sort is stable, so an item
\* comes after the items of higher score and after the earlier items of equal score
sorted_desc(items) ==
  Bind(items, LAMBDA s :
    LET ahead(j) == {i \in 1..Len(s) :
                       s[i].score > s[j].score \/ (s[i].score = s[j].score /\ i < j)}
    IN  [k \in 1..Len(s) |-> s[CHOOSE j \in 1..Len(s) : Cardinality(ahead(j)) = k - 1]])

\* the loop of search_kb: one result per entry of score > 0, in corpus order.  The
\* snippet, textwrap.shorten(text, 200), is kept as the id of the entry it shortens.
kb_scan(query_terms) ==
  LET score(i) == Cardinality(query_terms \cap kb_terms[i])
      hits == {i \in 1..Len(kb) : score(i) > 0}
  IN  Computed([n \in 1..Cardinality(hits) |->
         Bind(nth(hits, n), LAMBDA i :
           [title |-> kb[i].id, snippet |-> kb[i].id,
            url |-> "local://" \o kb[i].id, score |-> score(i)])])

search_kb(query) ==
  Bind(term_set(query), LAMBDA query_terms :
    Bind(sorted_desc(kb_scan(query_terms)), LAMBDA ranked : Take(ranked, 3)))

\* mock_web_search: one result; title and snippet embed the query
mock_web_search(query) ==
  << [title |-> query, url |-> "https://example.com/research", snippet |-> query] >>

-----------------------------------------------------------------------------
(* Specialist roles, router, planner *)

\* Advisor.professors, in declaration order
professors ==
  << [name |-> Name_Algorithms, specialty |-> Specialty_Algorithms,
      expertise_keywords |-> Keywords_Algorithms],
     [name |-> Name_Systems, specialty |-> Specialty_Systems,
      expertise_keywords |-> Keywords_Systems],
     [name |-> Name_Security, specialty |-> Specialty_Security,
      expertise_keywords |-> Keywords_Security],
     [name |-> Name_Finance, specialty |-> Specialty_Finance,
      expertise_keywords |-> Keywords_Finance] >>

\* sum(1 for keyword in prof.expertise_keywords if keyword in subq_lower)
keyword_score(prof, subq_lower) ==
  Cardinality({k \in 1..Len(prof.expertise_keywords) :
                 contains(subq_lower, prof.expertise_keywords[k])})

\* prof_scores after the loop: the roles of score > 0, in declaration order
prof_scores(subq_lower) ==
  LET scoring == {i \in 1..Len(professors) : keyword_score(professors[i], subq_lower) > 0}
  IN  Computed([n \in 1..Cardinality(scoring) |->
         Bind(nth(scoring, n), LAMBDA i :
           [name |-> professors[i].name,
            score |-> keyword_score(professors[i], subq_lower)])])

default_scores == << [name |-> Name_Algorithms, score |-> 1],
                     [name |-> Name_Systems, score |-> 1] >>

\* route_professors returning the whole ranking, without its [:2]
route_professors_uncut(subq) ==
  Bind(lower(subq), LAMBDA subq_lower :
    Bind(prof_scores(subq_lower), LAMBDA scored :
      Bind(sorted_desc(IF scored = <<>> THEN default_scores ELSE scored), LAMBDA ranked :
        [i \in 1..Len(ranked) |-> ranked[i].name])))

route_professors(subq) ==
  Bind(lower(subq), LAMBDA subq_lower :
    Bind(prof_scores(subq_lower), LAMBDA scored :
      Bind(sorted_desc(IF scored = <<>> THEN default_scores ELSE scored), LAMBDA ranked :
        [i \in 1..Min(2, Len(ranked)) |-> ranked[i].name])))

\* consult_professors: [p for p in self.professors if p.name in prof_names]
select_profs(prof_names) ==
  Bind(SeqToSet(prof_names), LAMBDA names : SelectSeq(professors, LAMBDA p : p.name \in names))

\* A question is what the driver passes: a str, or (from the JSON body of the HTTP
\* driver) a value that is no str
Str(text) == [is_str |-> TRUE, text |-> text]
NotStr == [is_str |-> FALSE, text |-> <<>>]

\* question.lower() raises AttributeError on a value that is no str
plan_raises(q) == ~q.is_str

\* an except clause that names one class only: except ValueError
caught_by_except_narrow(exc) == exc \in {"ValueError"}

\* except Exception: the classes the clause of ooda_run catches
caught_by_except(exc) == exc \in {"AttributeError", "TypeError", "ValueError", "KeyError"}

fixed_subqs == <<Subq_compare, Subq_latency, Subq_byzantine>>

\* plan_async looking for its triggers in the question as typed, without lower()
plan_async_case_sensitive(q) ==
  LET subqs == IF contains(q.text, triggers[1]) \/ contains(q.text, triggers[2])
                  \/ contains(q.text, triggers[3])
               THEN fixed_subqs
               ELSE <<q.text>>
  IN  [subqs |-> Take(subqs, 3), budgets |-> [tool_calls |-> 2]]

plan_async(q) ==
  Bind(lower(q.text), LAMBDA ql :
    LET subqs == IF contains(ql, triggers[1]) \/ contains(ql, triggers[2])
                    \/ contains(ql, triggers[3])
                 THEN fixed_subqs
                 ELSE <<q.text>>
    IN  [subqs |-> Take(subqs, 3), budgets |-> [tool_calls |-> 2]])

-----------------------------------------------------------------------------
(* Synthesizer *)

ref(n) == <<"[", DigitChars[n + 1], "]">>

\* _fallback_synthesis referencing [1], [2], [3] whatever the number of citations
fallback_synthesis_unclamped(citations) ==
  SynthLine1 \o ref(1) \o NL \o SynthLine2 \o ref(2) \o NL \o SynthLine3 \o ref(3) \o NL \o DONE

fallback_synthesis(citations) ==
  LET ref1 == IF Len(citations) > 0 THEN ref(1) ELSE ref(1)
      ref2 == IF Len(citations) > 1 THEN ref(2) ELSE ref(1)
      ref3 == IF Len(citations) > 2 THEN ref(3) ELSE ref(1)
  IN  SynthLine1 \o ref1 \o NL \o SynthLine2 \o ref2 \o NL \o SynthLine3 \o ref3 \o NL \o DONE

\* the validation that wants no terminator
format_ok_without_terminator(result) ==
  \E stripped \in {strip(result)} :
    Len(SelectSeq(split_lines(stripped), LAMBDA line : startswith(line, BulletMarker))) = 3

\* the validation of synthesize_async: lines = result.strip().split('\n'), bullets the
\* lines that start with the marker
bullets_of(stripped) ==
  SelectSeq(split_lines(stripped), LAMBDA line : startswith(line, BulletMarker))
format_ok(result) ==
  \E stripped \in {strip(result)} :
     Len(bullets_of(stripped)) = 3 /\ endswith(stripped, DONE)

-----------------------------------------------------------------------------
(* Metrics *)

\* Metrics(): the field values of a fresh recorder, and of one a driver has reset.
\* start_time and the timestamp prefix of an event are left out: time is not modelled.
fresh_metrics ==
  [llm_tokens_in |-> 0, llm_tokens_out |-> 0,
   tool_calls |-> [search |-> 0, fetch |-> 0, vector |-> 0],
   cache_hits |-> [search |-> 0, fetch |-> 0],
   events |-> <<>>, error_count |-> 0]

\* str(n) of a small natural number
str_int(n) ==
  IF n < 10 THEN <<DigitChars[n + 1]>>
  ELSE <<DigitChars[(n \div 10) + 1], DigitChars[(n % 10) + 1]>>

\* An event of the log: the fixed text of the message and the text it formats in
Event(tag, arg) == [tag |-> tag, arg |-> arg]

\* log_event
log_event(M, msg) == [M EXCEPT !.events = Append(@, msg)]

\* log_error: the message is "ERROR in {context}: {str(error)}"; str(error) is not kept
log_error(M, context) ==
  log_event([M EXCEPT !.error_count = @ + 1], Event("ERROR in", context))

\* summary(), without the duration
summary(M) == [tools |-> M.tool_calls, errors |-> M.error_count]

-----------------------------------------------------------------------------
(* Backend client: llm_call_async *)

\* the default of the max_retries parameter
DefaultMaxRetries == 3

mock_response(role) == MockPrefix \o role \o MockSuffix
fallback_response(role) == FallbackPrefix \o role \o FallbackSuffix

\* prompt = f"[SYSTEM]\n{SYSTEM_CORE}\n\n[{role}]\n{content}"
prompt_of(role, content) ==
  PromptSystem \o SYSTEM_CORE \o NL \o NL \o <<"[">> \o role \o <<"]">> \o NL \o content

\* the test of the final attempt off by one: attempt == max_retries
is_final_attempt_late(attempt, max_retries) == attempt = max_retries

\* if attempt == max_retries - 1
is_final_attempt(attempt, max_retries) == attempt = max_retries - 1

\* The frame of a call that has not been made
no_call ==
  [role |-> <<>>, max_retries |-> 0, attempt |-> 0, return_to |-> "none", result |-> <<>>]

\* What one requests.post gives: an exception (connection error, timeout, a status
\* raise_for_status rejects, a body that is not JSON), or a JSON object with or without
\* the "response" field
Raises == [ok |-> FALSE, has_response |-> FALSE, response |-> <<>>]
Body(text) == [ok |-> TRUE, has_response |-> TRUE, response |-> text]
BodyWithoutResponse == [ok |-> TRUE, has_response |-> FALSE, response |-> <<>>]

reply_kind(reply) ==
  IF ~reply.ok THEN "raises" ELSE IF reply.has_response THEN "response" ELSE "no_response"

\* response.json().get("response", "").strip()
result_of(reply) == strip(IF reply.has_response THEN reply.response ELSE <<>>)

-----------------------------------------------------------------------------
(* Evidence cards: EvidenceCard and the parsing of analyze_async *)

\* JSON values, as json.loads returns them
JNum(tenths) == [t |-> "num", v |-> <<tenths>>]
JStr(chars) == [t |-> "str", v |-> chars]
JList(items) == [t |-> "list", v |-> items]
JDict(fields) == [t |-> "dict", v |-> fields]

\* the clamp without its upper limit
clamp_lower_only(confidence) == Max(0, confidence)

\* max(0.0, min(1.0, confidence)), in tenths
clamp(confidence) == Max(0, Min(10, confidence))

EvidenceCard(claim, confidence, citations, rationale, professor) ==
  [claim |-> claim, confidence |-> clamp(confidence), citations |-> citations,
   rationale |-> rationale, professor |-> professor]

\* card_data.get(key, default)
dict_get(d, key, default) == IF key \in DOMAIN d.v THEN d.v[key] ELSE default

\* float(x) raises ValueError on a str that spells no number and TypeError on a list
\* or dict; a str that spells a number converts, and no modelled reply holds one
float_raises(x) == x.t # "num"
float_of(x) == x.v[1]

\* json.loads on the reply texts of the model: the two that are JSON lists parse, every
\* other text (none is JSON) raises, which the bare except of analyze_async turns into []
json_loads(raw) ==
  IF raw = Txt_list
    THEN [ok |-> TRUE,
          value |-> << JDict([confidence |-> JNum(17)]),
                       JDict([claim |-> JStr(Txt_c), confidence |-> JNum(-3)]) >>]
  ELSE IF raw = Txt_badconf
    THEN [ok |-> TRUE, value |-> << JDict([confidence |-> JStr(Txt_high)]) >>]
  ELSE [ok |-> FALSE, value |-> <<>>]

\* cards_data = json.loads(raw) if raw.startswith('[') else [], [] when loads raises
cards_data_of(raw) ==
  IF startswith(raw, <<"[">>) /\ json_loads(raw).ok THEN json_loads(raw).value ELSE <<>>

\* the placeholder of `if not cards`
placeholder_card(prof) ==
  EvidenceCard(JStr(prof.specialty \o ConsiderationsRequired), 5, JList(<<1>>),
               JStr(FallbackGuidance), prof.name)

\* the except clause returning the card of `if not cards`
error_card_as_placeholder(prof) == placeholder_card(prof)

\* the placeholder of the except clause
error_card(prof) ==
  EvidenceCard(JStr(prof.specialty \o AnalysisNeeded), 3, JList(<<1>>),
               JStr(ErrorFallback), prof.name)

\* analyze_async after the backend call returned raw: the cards it returns, and whether
\* its except clause ran
analyze_cards(prof, raw) ==
  LET dicts == SelectSeq(Take(cards_data_of(raw), 2), LAMBDA c : c.t = "dict")
      conf(d) == dict_get(d, "confidence", JNum(5))
      card(d) == EvidenceCard(dict_get(d, "claim", JStr(prof.specialty \o AnalysisNeeded)),
                              float_of(conf(d)),
                              dict_get(d, "citations", JList(<<1>>)),
                              dict_get(d, "rationale", JStr(BasedOnEvidence)),
                              prof.name)
  IN  IF \E i \in 1..Len(dicts) : float_raises(conf(dicts[i]))
      THEN [raised |-> TRUE, cards |-> <<error_card(prof)>>]
      ELSE IF dicts = <<>>
           THEN [raised |-> FALSE, cards |-> <<placeholder_card(prof)>>]
           ELSE [raised |-> FALSE, cards |-> [i \in 1..Len(dicts) |-> card(dicts[i])]]

-----------------------------------------------------------------------------
(* Evidence gatherer *)

\* all_citations.extend(c for c in citations if c not in all_citations)
\* an extend that keeps every citation
extend_all(all, citations) == all \o citations

RECURSIVE extend_new(_, _)
extend_new(all, citations) ==
  IF citations = <<>> THEN all
  ELSE extend_new(IF Head(citations) \in SeqToSet(all) THEN all
                  ELSE Append(all, Head(citations)),
                  Tail(citations))

\* gather_evidence: the snippets and citations it returns and the recorder it leaves
gather_evidence(M, subq) ==
  Bind(search_kb(subq), LAMBDA kb_results :
    Bind([i \in 1..Len(kb_results) |->
             [snippet |-> [src |-> "KB", text |-> <<kb_results[i].snippet>>],
              citation |-> kb_results[i].url]]
         \o [i \in 1..Len(Take(mock_web_search(subq), 1)) |->
             [snippet |-> [src |-> "WEB", text |-> mock_web_search(subq)[i].snippet],
              citation |-> mock_web_search(subq)[i].url]],
         LAMBDA found :
      [snippets |-> [i \in 1..Min(3, Len(found)) |-> found[i].snippet],
       citations |-> [i \in 1..Min(3, Len(found)) |-> found[i].citation],
       metrics |-> [log_event(M, Event("Gathering evidence for", Take(subq, 50)))
                      EXCEPT !.tool_calls.vector = @ + Len(kb_results),
                             !.tool_calls.search = @ + Len(Take(mock_web_search(subq), 1))]]))

-----------------------------------------------------------------------------
(* Inputs *)

\* The questions a driver passes: the end-to-end example of the documentation, a
\* questions: one with planner triggers, one without a trigger that matches keywords and
\* corpus entries, one that matches nothing; and a JSON value of the HTTP driver that is
\* no str
Questions == {Str(Q_compare), Str(Q_byzantine), Str(Q_hello), NotStr}

\* What the backend may answer to an analysis prompt and to a synthesis prompt
AnalyzeReplies == {Raises, Body(Txt_list), Body(Txt_badconf)}
SynthReplies == {Raises, BodyWithoutResponse, Body(Txt_good), Body(Txt_preamble),
                 Body(Txt_cite9), Body(Txt_two), Body(Txt_nodone), Body(Txt_four)}
Replies(return_to) == IF return_to = "analyze_ret" THEN AnalyzeReplies ELSE SynthReplies

-----------------------------------------------------------------------------
(* The run: ooda_run and the coroutines it awaits *)

no_plan == [subqs |-> <<>>, budgets |-> [tool_calls |-> 0]]
nothing_shown == [printed |-> FALSE, summary |-> summary(fresh_metrics),
                  log |-> <<>>, report |-> <<>>]
\* calls: llm_call_async calls of the run; posts: requests.post calls of the run; of the
\* call in progress or last returned: tries (its posts), failed (those that raised),
\* slept_after (the attempts it waited after), and error_count and len(events) at its
\* start; errors_at_raise: error_count when the except clause of ooda_run was entered;
\* reply: what its last requests.post gave;
\* trace: the stage events and the stage work of the run, in order; runs: the runs the
\* driver has started
no_hist == [runs |-> 1, calls |-> 0, posts |-> 0, tries |-> 0, failed |-> 0,
            reply |-> "none", slept_after |-> <<>>,
            errors_at_call |-> 0, events_at_call |-> 0,
            errors_at_raise |-> 0, trace |-> <<>>]
\* no request of the HTTP driver
no_reqs == <<>>
\* no function applied on its own: the text and the citation list built so far
idle == [fn |-> "none", arg |-> <<>>, words |-> 0, citations |-> <<>>, ret |-> <<>>]

Init ==
  /\ requests \in BOOLEAN
  /\ question \in Questions
  /\ pc = "observe"
  /\ METRICS = fresh_metrics
  /\ plan = no_plan
  /\ subq_i = 0
  /\ snippets = <<>>
  /\ all_evidence = <<>>
  /\ all_citations = <<>>
  /\ selected_profs = <<>>
  /\ llm = no_call
  /\ draft = <<>>
  /\ raised = "none"
  /\ shown = nothing_shown
  /\ hist = no_hist
  /\ unit = idle
  /\ reqs = no_reqs

\* a step of the run appended to the history
Mark(h, kind, stage) == [h EXCEPT !.trace = Append(@, [kind |-> kind, stage |-> stage])]

\* The start of llm_call_async up to its for loop: the mock string at once when the
\* requests library is missing, else the token estimate of the prompt.  The content of
\* a prompt is kept as the question it asks about; its fixed template text is left out.
\* an entry that estimates the tokens of the prompt before it looks for the library
llm_enter_counts_first(M, role, content, max_retries, return_to) ==
  [llm |-> [role |-> role, max_retries |-> max_retries, attempt |-> 0,
            return_to |-> return_to,
            result |-> IF requests THEN <<>> ELSE mock_response(role)],
   metrics |-> [M EXCEPT !.llm_tokens_in = @ + estimate_tokens(prompt_of(role, content))],
   pc |-> IF requests THEN "llm" ELSE return_to]

llm_enter(M, role, content, max_retries, return_to) ==
  IF ~requests
  THEN [llm |-> [role |-> role, max_retries |-> max_retries, attempt |-> 0,
                 return_to |-> return_to, result |-> mock_response(role)],
        metrics |-> M, pc |-> return_to]
  ELSE [llm |-> [role |-> role, max_retries |-> max_retries, attempt |-> 0,
                 return_to |-> return_to, result |-> <<>>],
        metrics |-> [M EXCEPT !.llm_tokens_in = @ + estimate_tokens(prompt_of(role, content))],
        pc |-> "llm"]

\* the history at the start of a call
call_begins(h, M, stage) ==
  [Mark(h, "work", stage) EXCEPT !.calls = @ + 1, !.tries = 0, !.slept_after = <<>>,
                        !.failed = 0, !.reply = "none",
                        !.errors_at_call = M.error_count,
                        !.events_at_call = Len(M.events)]

Observe ==
  /\ pc = "observe"
  /\ METRICS' = log_event(METRICS, Event("OBSERVE", <<>>))
  /\ hist' = Mark(hist, "event", "OBSERVE")
  /\ pc' = "orient"
  /\ UNCHANGED <<requests, question, plan, subq_i, snippets, all_evidence, all_citations,
                 selected_profs, llm, draft, raised, shown, unit, reqs>>

Orient ==
  /\ pc = "orient"
  /\ METRICS' = log_event(METRICS, Event("ORIENT", <<>>))
  /\ IF plan_raises(question)
     THEN /\ raised' = "AttributeError"
          /\ hist' = [Mark(Mark(hist, "event", "ORIENT"), "raise", "ORIENT")
                        EXCEPT !.errors_at_raise = METRICS.error_count]
          /\ pc' = IF caught_by_except("AttributeError") THEN "except" ELSE "propagated"
          /\ plan' = plan
     ELSE /\ plan' = plan_async(question)
          /\ hist' = Mark(Mark(hist, "event", "ORIENT"), "work", "ORIENT")
          /\ pc' = "decide"
          /\ raised' = raised
  /\ UNCHANGED <<requests, question, subq_i, snippets, all_evidence, all_citations,
                 selected_profs, llm, draft, shown, unit, reqs>>

\* the entry of consult_professors without the DECIDE event before it
DecideWithoutEvent ==
  /\ pc = "decide"
  /\ all_evidence' = <<>>
  /\ all_citations' = <<>>
  /\ subq_i' = 0
  /\ pc' = "subq"
  /\ UNCHANGED <<requests, question, METRICS, plan, snippets, selected_profs, llm, draft,
                 raised, shown, hist, unit, reqs>>

\* the DECIDE event and the entry of consult_professors(plan.get("subqs", [question]))
Decide ==
  /\ pc = "decide"
  /\ METRICS' = log_event(METRICS, Event("DECIDE", <<>>))
  /\ hist' = Mark(hist, "event", "DECIDE")
  /\ all_evidence' = <<>>
  /\ all_citations' = <<>>
  /\ subq_i' = 0
  /\ pc' = "subq"
  /\ UNCHANGED <<requests, question, plan, snippets, selected_profs, llm, draft, raised,
                 shown, unit, reqs>>

\* one iteration of the loop of consult_professors, up to its loop over the roles
ProcessSubq ==
  /\ pc = "subq"
  /\ subq_i < Len(plan.subqs)
  /\ LET subq == plan.subqs[subq_i + 1]
         M1 == log_event(METRICS, Event("Processing subq", str_int(subq_i + 1) \o Take(subq, 40)))
     IN  \E g \in {gather_evidence(M1, subq)} :
           /\ METRICS' = g.metrics
           /\ snippets' = g.snippets
           /\ all_citations' = extend_new(all_citations, g.citations)
           /\ selected_profs' = select_profs(route_professors(subq))
  /\ hist' = Mark(hist, "work", "DECIDE")
  /\ pc' = "prof"
  /\ UNCHANGED <<requests, question, plan, subq_i, all_evidence, llm, draft, raised,
                 shown, unit, reqs>>

\* consult_professors returns (all_evidence, all_citations)
ConsultReturn ==
  /\ pc = "subq"
  /\ subq_i >= Len(plan.subqs)
  /\ pc' = "act"
  /\ UNCHANGED <<requests, question, METRICS, plan, subq_i, snippets, all_evidence,
                 all_citations, selected_profs, llm, draft, raised, shown, hist, unit, reqs>>

\* analyze_async up to its await of llm_call_async(self.name, prompt, temperature=0.2)
AnalyzeCall ==
  /\ pc = "prof"
  /\ selected_profs # <<>>
  /\ LET e == llm_enter(METRICS, Head(selected_profs).name, plan.subqs[subq_i + 1],
                        DefaultMaxRetries, "analyze_ret")
     IN  /\ llm' = e.llm
         /\ METRICS' = e.metrics
         /\ pc' = e.pc
  /\ hist' = call_begins(hist, METRICS, "DECIDE")
  /\ UNCHANGED <<requests, question, plan, subq_i, snippets, all_evidence, all_citations,
                 selected_profs, draft, raised, shown, unit, reqs>>

\* the loop over the roles is over: the next sub-question
NextSubq ==
  /\ pc = "prof"
  /\ selected_profs = <<>>
  /\ subq_i' = subq_i + 1
  /\ pc' = "subq"
  /\ UNCHANGED <<requests, question, METRICS, plan, snippets, all_evidence, all_citations,
                 selected_profs, llm, draft, raised, shown, hist, unit, reqs>>

\* One iteration of the for loop of llm_call_async, or the return after the loop when
\* range(max_retries) is used up without a return
LlmAttempt ==
  /\ pc = "llm"
  /\ IF llm.attempt < llm.max_retries
     THEN \E reply \in Replies(llm.return_to) :
            IF reply.ok
            THEN /\ llm' = [llm EXCEPT !.result = result_of(reply)]
                 /\ METRICS' = [METRICS EXCEPT
                                  !.llm_tokens_out = @ + estimate_tokens(result_of(reply))]
                 /\ hist' = [hist EXCEPT !.posts = @ + 1, !.tries = @ + 1,
                                         !.reply = reply_kind(reply)]
                 /\ pc' = llm.return_to
            ELSE /\ METRICS' = log_error(METRICS, <<"LLM attempt ">> \o str_int(llm.attempt + 1))
                 /\ IF is_final_attempt(llm.attempt, llm.max_retries)
                    THEN /\ llm' = [llm EXCEPT !.result = fallback_response(llm.role)]
                         /\ hist' = [hist EXCEPT !.posts = @ + 1, !.tries = @ + 1,
                                                 !.failed = @ + 1,
                                                 !.reply = reply_kind(reply)]
                         /\ pc' = llm.return_to
                    ELSE /\ llm' = llm
                         /\ hist' = [hist EXCEPT !.posts = @ + 1, !.tries = @ + 1,
                                                 !.failed = @ + 1,
                                                 !.reply = reply_kind(reply)]
                         /\ pc' = "sleep"
     ELSE /\ llm' = [llm EXCEPT !.result = ErrorGenerating]
          /\ METRICS' = METRICS
          /\ hist' = hist
          /\ pc' = llm.return_to
  /\ UNCHANGED <<requests, question, plan, subq_i, snippets, all_evidence, all_citations,
                 selected_profs, draft, raised, shown, unit, reqs>>

\* a wait that is never resumed
LlmSleepNeverResumes ==
  /\ pc = "sleep"
  /\ UNCHANGED vars

\* await asyncio.sleep(1), then the next value of range(max_retries)
LlmSleep ==
  /\ pc = "sleep"
  /\ llm' = [llm EXCEPT !.attempt = @ + 1]
  /\ hist' = [hist EXCEPT !.slept_after = Append(@, llm.attempt + 1)]
  /\ pc' = "llm"
  /\ UNCHANGED <<requests, question, METRICS, plan, subq_i, snippets, all_evidence,
                 all_citations, selected_profs, draft, raised, shown, unit, reqs>>

\* analyze_async from the return of the backend call to its own return, and
\* all_evidence.extend(cards)
AnalyzeReturn ==
  /\ pc = "analyze_ret"
  /\ LET prof == Head(selected_profs)
         r == analyze_cards(prof, llm.result)
     IN  /\ METRICS' = IF r.raised THEN log_error(METRICS, <<"analyze_">> \o prof.name)
                       ELSE METRICS
         /\ all_evidence' = all_evidence \o r.cards
  /\ selected_profs' = Tail(selected_profs)
  /\ pc' = "prof"
  /\ UNCHANGED <<requests, question, plan, subq_i, snippets, all_citations, llm, draft,
                 raised, shown, hist, unit, reqs>>

\* the ACT event and synthesize_async up to its await of
\* llm_call_async("Synthesizer", prompt, temperature=0.1)
Act ==
  /\ pc = "act"
  /\ LET M1 == log_event(METRICS, Event("ACT", <<>>))
         e == llm_enter(M1, Name_Synthesizer, question.text, DefaultMaxRetries, "synth_ret")
     IN  /\ llm' = e.llm
         /\ METRICS' = e.metrics
         /\ pc' = e.pc
         /\ hist' = call_begins(Mark(hist, "event", "ACT"), M1, "ACT")
  /\ UNCHANGED <<requests, question, plan, subq_i, snippets, all_evidence, all_citations,
                 selected_profs, draft, raised, shown, unit, reqs>>

\* synthesize_async from the return of the backend call: the validation, then the
\* completion event of ooda_run.  No statement of its try block raises on the values
\* the run builds, so its except clause takes no part.
SynthReturn ==
  /\ pc = "synth_ret"
  /\ draft' = IF format_ok(llm.result) THEN llm.result
              ELSE fallback_synthesis(all_citations)
  /\ METRICS' = log_event(METRICS, Event("OODA cycle completed", <<>>))
  /\ pc' = "display"
  /\ UNCHANGED <<requests, question, plan, subq_i, snippets, all_evidence, all_citations,
                 selected_profs, llm, raised, shown, hist, unit, reqs>>

\* except Exception as e
OodaExcept ==
  /\ pc = "except"
  /\ METRICS' = log_error(METRICS, <<"ooda_main">>)
  /\ draft' = OodaFallbackDraft
  /\ pc' = "display"
  /\ UNCHANGED <<requests, question, plan, subq_i, snippets, all_evidence, all_citations,
                 selected_profs, llm, raised, shown, hist, unit, reqs>>

\* for event in METRICS.events[-8:]
last_events(events) == SubSeq(events, Max(1, Len(events) - 7), Len(events))

\* the prints after the try statement: summary, trailing log, report
Display ==
  /\ pc = "display"
  /\ shown' = [printed |-> TRUE, summary |-> summary(METRICS),
               log |-> last_events(METRICS.events), report |-> draft]
  /\ pc' = "done"
  /\ UNCHANGED <<requests, question, METRICS, plan, subq_i, snippets, all_evidence,
                 all_citations, selected_profs, llm, draft, raised, hist, unit, reqs>>

Next ==
  \/ Observe
  \/ Orient
  \/ Decide
  \/ ProcessSubq
  \/ ConsultReturn
  \/ AnalyzeCall
  \/ NextSubq
  \/ LlmAttempt
  \/ LlmSleep
  \/ AnalyzeReturn
  \/ Act
  \/ SynthReturn
  \/ OodaExcept
  \/ Display

Spec == Init /\ [][Next]_vars
-----------------------------------------------------------------------------
(* The functions of the module applied on their own, to texts built word by word and
   to citation lists built locator by locator *)

MaxWords == 3
MaxCitations == 4
\* confidences handed to EvidenceCard, in tenths: -MaxConfidence..MaxConfidence
MaxConfidence == 17

Word_Byzantine == <<"B","y","z","a","n","t","i","n","e">>
Word_fault == <<"f","a","u","l","t">>
Word_trading == <<"t","r","a","d","i","n","g">>
Word_PBFT == <<"P","B","F","T">>
Word_raft == <<"r","a","f","t">>
Word_Consensus == <<"C","o","n","s","e","n","s","u","s">>
Word_Hello == <<"H","e","l","l","o">>
Vocabulary == {Word_Byzantine, Word_fault, Word_trading, Word_PBFT, Word_raft,
               Word_Consensus, Word_Hello, Subq_latency}

\* the locators gather_evidence can return
CitationPool == {"local://" \o kb[i].id : i \in 1..Len(kb)} \cup {"https://example.com/research"}

UnitInit ==
  /\ requests = TRUE
  /\ question = Str(<<>>)
  /\ pc = "unit"
  /\ METRICS = fresh_metrics
  /\ plan = no_plan
  /\ subq_i = 0
  /\ snippets = <<>>
  /\ all_evidence = <<>>
  /\ all_citations = <<>>
  /\ selected_profs = <<>>
  /\ llm = no_call
  /\ draft = <<>>
  /\ raised = "none"
  /\ shown = nothing_shown
  /\ hist = no_hist
  /\ unit = idle
  /\ reqs = no_reqs

run_vars == <<requests, question, pc, METRICS, plan, subq_i, snippets, all_evidence,
              all_citations, selected_profs, llm, draft, raised, shown, hist, reqs>>

AppendWord ==
  /\ unit.fn = "none"
  /\ unit.citations = <<>>
  /\ unit.words < MaxWords
  /\ \E w \in Vocabulary :
       unit' = [unit EXCEPT !.arg = IF @ = <<>> THEN w ELSE @ \o <<" ">> \o w,
                            !.words = @ + 1]
  /\ UNCHANGED run_vars

AppendCitation ==
  /\ unit.fn = "none"
  /\ unit.words = 0
  /\ Len(unit.citations) < MaxCitations
  /\ \E c \in CitationPool : unit' = [unit EXCEPT !.citations = Append(@, c)]
  /\ UNCHANGED run_vars

CallRouteProfessors ==
  /\ unit.fn = "none"
  /\ unit.citations = <<>>
  /\ unit' = [unit EXCEPT !.fn = "route_professors", !.ret = route_professors(unit.arg)]
  /\ UNCHANGED run_vars

CallSearchKb ==
  /\ unit.fn = "none"
  /\ unit.citations = <<>>
  /\ unit' = [unit EXCEPT !.fn = "search_kb", !.ret = search_kb(unit.arg)]
  /\ UNCHANGED run_vars

CallPlan ==
  /\ unit.fn = "none"
  /\ unit.citations = <<>>
  /\ unit' = [unit EXCEPT !.fn = "plan_async", !.ret = plan_async(Str(unit.arg))]
  /\ UNCHANGED run_vars

CallFallbackSynthesis ==
  /\ unit.fn = "none"
  /\ unit.words = 0
  /\ unit' = [unit EXCEPT !.fn = "fallback_synthesis",
                          !.ret = fallback_synthesis(unit.citations)]
  /\ UNCHANGED run_vars

\* EvidenceCard(claim, confidence, citations, rationale, professor=name)
CallEvidenceCard ==
  /\ unit.fn = "none"
  /\ unit.words = 0
  /\ unit.citations = <<>>
  /\ \E confidence \in (0 - MaxConfidence)..MaxConfidence :
       unit' = [unit EXCEPT !.fn = "EvidenceCard",
                            !.arg = <<confidence>>,
                            !.ret = EvidenceCard(JStr(Txt_c), confidence, JList(<<1>>),
                                                 JStr(BasedOnEvidence), Name_Algorithms)]
  /\ UNCHANGED run_vars

\* gather_evidence(subq) on a recorder that has counted nothing
CallGatherEvidence ==
  /\ unit.fn = "none"
  /\ unit.citations = <<>>
  /\ unit' = [unit EXCEPT !.fn = "gather_evidence",
                          !.ret = gather_evidence(fresh_metrics, unit.arg)]
  /\ UNCHANGED run_vars

UnitNext ==
  \/ AppendWord
  \/ AppendCitation
  \/ CallRouteProfessors
  \/ CallSearchKb
  \/ CallPlan
  \/ CallFallbackSynthesis
  \/ CallEvidenceCard
  \/ CallGatherEvidence

UnitSpec == UnitInit /\ [][UnitNext]_vars

\* asyncio.run drives the coroutine of ooda_run until it returns: a step that can be
\* taken is taken
FairSpec == Spec /\ WF_vars(Next)

\* the runs, and the functions applied on their own outside a run
CardSpec == (Init \/ UnitInit) /\ [][Next \/ (pc = "unit" /\ UnitNext)]_vars

-----------------------------------------------------------------------------
(* llm_call_async called on its own, with any max_retries *)

MaxRetries == 4

LlmInit ==
  /\ requests \in BOOLEAN
  /\ question = Str(Q_hello)
  /\ pc = "caller"
  /\ METRICS = fresh_metrics
  /\ plan = no_plan
  /\ subq_i = 0
  /\ snippets = <<>>
  /\ all_evidence = <<>>
  /\ all_citations = <<>>
  /\ selected_profs = <<>>
  /\ llm = no_call
  /\ draft = <<>>
  /\ raised = "none"
  /\ shown = nothing_shown
  /\ hist = no_hist
  /\ unit = idle
  /\ reqs = no_reqs

\* await llm_call_async(role, content, max_retries=max_retries)
CallLlm ==
  /\ pc = "caller"
  /\ \E role \in {Name_Algorithms, Name_Synthesizer}, max_retries \in 0..MaxRetries :
       LET e == llm_enter(METRICS, role, question.text, max_retries, "returned")
       IN  /\ llm' = e.llm
           /\ METRICS' = e.metrics
           /\ pc' = e.pc
  /\ hist' = [hist EXCEPT !.calls = 1]
  /\ UNCHANGED <<requests, question, plan, subq_i, snippets, all_evidence, all_citations,
                 selected_profs, draft, raised, shown, unit, reqs>>

LlmNext ==
  \/ CallLlm
  \/ LlmAttempt
  \/ LlmSleep

LlmSpec == LlmInit /\ [][LlmNext]_vars

-----------------------------------------------------------------------------
(* The drivers: one run after another on the one recorder *)

MaxRuns == 2

\* the reset before a run that leaves error_count as it is
driver_reset_keeps_errors(M) ==
  [M EXCEPT !.llm_tokens_in = 0, !.llm_tokens_out = 0,
            !.tool_calls = [search |-> 0, fetch |-> 0, vector |-> 0],
            !.cache_hits = [search |-> 0, fetch |-> 0],
            !.events = <<>>]

\* the assignments to the fields of METRICS before a run; start_time is not kept
driver_reset(M) ==
  [M EXCEPT !.llm_tokens_in = 0, !.llm_tokens_out = 0,
            !.tool_calls = [search |-> 0, fetch |-> 0, vector |-> 0],
            !.cache_hits = [search |-> 0, fetch |-> 0],
            !.events = <<>>,
            !.error_count = 0]

\* The driver takes the next question after a run returned: it resets the recorder and
\* calls ooda_run, whose locals start anew
NextRun ==
  /\ pc = "done"
  /\ hist.runs < MaxRuns
  /\ METRICS' = driver_reset(METRICS)
  /\ question' \in Questions
  /\ pc' = "observe"
  /\ plan' = no_plan
  /\ subq_i' = 0
  /\ snippets' = <<>>
  /\ all_evidence' = <<>>
  /\ all_citations' = <<>>
  /\ selected_profs' = <<>>
  /\ llm' = no_call
  /\ draft' = <<>>
  /\ raised' = "none"
  /\ shown' = nothing_shown
  /\ hist' = [no_hist EXCEPT !.runs = hist.runs + 1]
  /\ UNCHANGED <<requests, unit, reqs>>

DriverNext ==
  \/ Next
  \/ NextRun

DriverSpec == Init /\ [][DriverNext]_vars

-----------------------------------------------------------------------------
(* The HTTP driver: analyze_question runs in a thread of the server for each request, and
   the threads share the module global METRICS.  Each request here carries the JSON
   number 5 as its question, the run of ooda_run that ends soonest: OBSERVE, ORIENT, the
   AttributeError of plan_async, the except clause.  A thread can be preempted between
   any two statements. *)

NumRequests == 2

\* A request that has passed the test of its question.  own_events and own_errors are
\* history: the events the run of this request has logged and the errors it has counted
new_req ==
  [pc |-> "reset_counters", own_events |-> <<>>, own_errors |-> 0,
   response |-> [metrics |-> summary(fresh_metrics), log |-> <<>>]]

HttpInit ==
  /\ requests = TRUE
  /\ question = NotStr
  /\ pc = "http"
  /\ METRICS = fresh_metrics
  /\ plan = no_plan
  /\ subq_i = 0
  /\ snippets = <<>>
  /\ all_evidence = <<>>
  /\ all_citations = <<>>
  /\ selected_profs = <<>>
  /\ llm = no_call
  /\ draft = <<>>
  /\ raised = "none"
  /\ shown = nothing_shown
  /\ hist = no_hist
  /\ unit = idle
  /\ reqs = [r \in 1..NumRequests |-> new_req]

thread_vars == <<requests, question, pc, plan, subq_i, snippets, all_evidence,
                 all_citations, selected_profs, llm, draft, raised, shown, hist, unit>>

\* METRICS.llm_tokens_in = 0 ... METRICS.cache_hits = {...}
ReqResetCounters(r) ==
  /\ reqs[r].pc = "reset_counters"
  /\ METRICS' = [METRICS EXCEPT !.llm_tokens_in = 0, !.llm_tokens_out = 0,
                                !.tool_calls = [search |-> 0, fetch |-> 0, vector |-> 0],
                                !.cache_hits = [search |-> 0, fetch |-> 0]]
  /\ reqs' = [reqs EXCEPT ![r].pc = "reset_events"]
  /\ UNCHANGED thread_vars

\* METRICS.events = []
ReqResetEvents(r) ==
  /\ reqs[r].pc = "reset_events"
  /\ METRICS' = [METRICS EXCEPT !.events = <<>>]
  /\ reqs' = [reqs EXCEPT ![r].pc = "reset_errors"]
  /\ UNCHANGED thread_vars

\* METRICS.error_count = 0, and the call of ooda_run
ReqResetErrors(r) ==
  /\ reqs[r].pc = "reset_errors"
  /\ METRICS' = [METRICS EXCEPT !.error_count = 0]
  /\ reqs' = [reqs EXCEPT ![r].pc = "observe"]
  /\ UNCHANGED thread_vars

\* ooda_run: the OBSERVE event
ReqObserve(r) ==
  /\ reqs[r].pc = "observe"
  /\ METRICS' = log_event(METRICS, Event("OBSERVE", <<>>))
  /\ reqs' = [reqs EXCEPT ![r].pc = "orient",
                          ![r].own_events = Append(@, Event("OBSERVE", <<>>))]
  /\ UNCHANGED thread_vars

\* ooda_run: the ORIENT event, and plan_async raising on question.lower()
ReqOrient(r) ==
  /\ reqs[r].pc = "orient"
  /\ plan_raises(question) /\ caught_by_except("AttributeError")
  /\ METRICS' = log_event(METRICS, Event("ORIENT", <<>>))
  /\ reqs' = [reqs EXCEPT ![r].pc = "log_error",
                          ![r].own_events = Append(@, Event("ORIENT", <<>>))]
  /\ UNCHANGED thread_vars

\* log_error: self.error_count += 1
ReqLogErrorCount(r) ==
  /\ reqs[r].pc = "log_error"
  /\ METRICS' = [METRICS EXCEPT !.error_count = @ + 1]
  /\ reqs' = [reqs EXCEPT ![r].pc = "log_error_event", ![r].own_errors = @ + 1]
  /\ UNCHANGED thread_vars

\* log_error: self.log_event(f"ERROR in {context}: ..."), and the rest of ooda_run
ReqLogErrorEvent(r) ==
  /\ reqs[r].pc = "log_error_event"
  /\ METRICS' = log_event(METRICS, Event("ERROR in", <<"ooda_main">>))
  /\ reqs' = [reqs EXCEPT ![r].pc = "respond",
                          ![r].own_events = Append(@, Event("ERROR in", <<"ooda_main">>))]
  /\ UNCHANGED thread_vars

\* return jsonify({'analysis': result, 'metrics': METRICS.summary(), 'log': METRICS.events})
ReqRespond(r) ==
  /\ reqs[r].pc = "respond"
  /\ reqs' = [reqs EXCEPT ![r].pc = "responded",
                          ![r].response = [metrics |-> summary(METRICS),
                                           log |-> METRICS.events]]
  /\ UNCHANGED <<METRICS, thread_vars>>

HttpNext ==
  \E r \in 1..NumRequests :
    \/ ReqResetCounters(r)
    \/ ReqResetEvents(r)
    \/ ReqResetErrors(r)
    \/ ReqObserve(r)
    \/ ReqOrient(r)
    \/ ReqLogErrorCount(r)
    \/ ReqLogErrorEvent(r)
    \/ ReqRespond(r)

HttpSpec == HttpInit /\ [][HttpNext]_vars

-----------------------------------------------------------------------------
(* Properties *)

StageOrder == <<"OBSERVE", "ORIENT", "DECIDE", "ACT">>
stage_rank(stage) == CHOOSE i \in 1..Len(StageOrder) : StageOrder[i] = stage
is_prefix(s, t) == Len(s) <= Len(t) /\ \A i \in 1..Len(s) : s[i] = t[i]

\* the stage events of a log, in the order of the log
stage_tags(events) ==
  LET staged == SelectSeq(events, LAMBDA e : e.tag \in SeqToSet(StageOrder))
  IN  [i \in 1..Len(staged) |-> staged[i].tag]

\* a line ends with "[", one or more digits, "]"
ends_with_reference(line) ==
  /\ Len(line) >= 3
  /\ line[Len(line)] = "]"
  /\ \E k \in 1..(Len(line) - 2) :
       /\ line[k] = "["
       /\ \A j \in (k + 1)..(Len(line) - 1) : line[j] \in SeqToSet(DigitChars)

\* the report format: three bullet lines that end with a reference, then the terminator
\* alone on a line, and nothing else
report_format(report) ==
  LET lines == split_lines(report)
  IN  /\ Len(lines) = 4
      /\ \A i \in 1..3 : startswith(lines[i], BulletMarker) /\ ends_with_reference(lines[i])
      /\ lines[4] = DONE

\* the digit strings a report references as [digits]
cited_refs(report) ==
  {SubSeq(report, k + 1, j - 1) :
     <<k, j>> \in {<<a, b>> \in {i \in 1..Len(report) : report[i] = "["}
                                   \X {i \in 1..Len(report) : report[i] = "]"} :
                     /\ a + 1 < b
                     /\ \A i \in (a + 1)..(b - 1) : report[i] \in SeqToSet(DigitChars)}}

llm_returned == pc \in {"analyze_ret", "synth_ret"}
attempt_error(n) == Event("ERROR in", <<"LLM attempt ">> \o str_int(n))

\* C1: every report ooda_run prints is three lines that start with the bullet marker and
\* end with a bracketed integer reference, then a line holding DONE alone, nothing else
C1_ReportFormat == pc = "done" => report_format(shown.report)

\* C2: an exception raised in a stage does not leave ooda_run: it is caught by the
\* except clause, which adds exactly one to error_count and one error event labelled
\* ooda_main, substitutes the fallback draft, and the run goes on to print the summary
\* and the report
C2_ExceptionCaught ==
  /\ pc # "propagated"
  /\ (raised # "none" /\ pc \in {"display", "done"}) =>
        /\ METRICS.error_count = hist.errors_at_raise + 1
        /\ METRICS.events[Len(METRICS.events)] = Event("ERROR in", <<"ooda_main">>)
        /\ Cardinality({i \in 1..Len(METRICS.events) :
                          METRICS.events[i].tag = "ERROR in"}) = METRICS.error_count
        /\ draft = OodaFallbackDraft
  /\ (raised # "none" /\ pc = "done") =>
        /\ shown.printed
        /\ shown.report = OodaFallbackDraft
        /\ shown.summary.errors = hist.errors_at_raise + 1
C2_Witness == raised = "AttributeError" /\ pc = "done" /\ shown.printed

\* C3: a call with max_retries = 3 whose every attempt failed has made exactly 3
\* attempts, logged exactly the 3 error events of attempts 1, 2 and 3, waited after
\* attempts 1 and 2 only, and returned the fallback string that holds the role
C3_PersistentFailure ==
  (llm_returned /\ requests /\ llm.max_retries = 3 /\ hist.failed = hist.tries) =>
     /\ hist.tries = 3
     /\ METRICS.error_count = hist.errors_at_call + 3
     /\ SubSeq(METRICS.events, hist.events_at_call + 1, Len(METRICS.events))
          = <<attempt_error(1), attempt_error(2), attempt_error(3)>>
     /\ hist.slept_after = <<1, 2>>
     /\ llm.result = fallback_response(llm.role)
     /\ contains(llm.result, llm.role)
C3_Witness ==
  /\ pc = "synth_ret" /\ requests /\ llm.max_retries = 3
  /\ hist.failed = 3 /\ hist.tries = 3 /\ llm.role = Name_Synthesizer

\* C4: every run reaches the end of ooda_run with the summary, the trailing log and a
\* report printed; no call makes more than max_retries attempts and no run makes more
\* than 3 * 2 + 1 calls
C4_RunCompletes ==
  /\ <>(/\ pc = "done"
        /\ shown.printed
        /\ shown.log = last_events(METRICS.events)
        /\ shown.report = draft)
  /\ [](/\ hist.tries <= llm.max_retries
        /\ hist.calls <= 3 * 2 + 1
        /\ hist.posts <= (3 * 2 + 1) * DefaultMaxRetries)
C4_Witness ==
  /\ pc = "done" /\ shown.printed /\ requests
  /\ hist.calls = 5 /\ hist.posts = 5 * DefaultMaxRetries
  /\ METRICS.error_count = 5 * DefaultMaxRetries

\* C5: the stage events enter the log in the order OBSERVE, ORIENT, DECIDE, ACT; the work
\* of a stage comes after the event of that stage and before the event of the next; and
\* after a stage raised no stage event and no stage work follows
C5_StageOrder ==
  LET t == hist.trace
      marked == SelectSeq(t, LAMBDA m : m.kind = "event")
  IN  /\ is_prefix(stage_tags(METRICS.events), StageOrder)
      /\ stage_tags(METRICS.events) = [i \in 1..Len(marked) |-> marked[i].stage]
      /\ \A i \in 1..Len(t) :
           /\ t[i].kind = "work" =>
                \E j \in 1..(i - 1) : t[j].kind = "event" /\ t[j].stage = t[i].stage
           /\ t[i].kind = "raise" => i = Len(t)
           /\ \A j \in (i + 1)..Len(t) : stage_rank(t[i].stage) <= stage_rank(t[j].stage)
      /\ raised # "none" =>
           /\ Len(t) > 0 /\ t[Len(t)].kind = "raise"
           /\ stage_tags(METRICS.events) = SubSeq(StageOrder, 1, stage_rank(t[Len(t)].stage))
C5_Witness ==
  /\ pc = "done" /\ raised = "none"
  /\ stage_tags(METRICS.events) = StageOrder
  /\ hist.calls = 5

\* C6: the number of distinct citation indices the final report references is at most
\* the number of citations the run accumulated
C6_CitedWithinAccumulated ==
  pc = "done" => Cardinality(cited_refs(shown.report)) <= Len(all_citations)

\* C7: route_professors returns 1 or 2 names of roles for every sub-question, and so 1 or
\* 2 roles are selected to analyse it
C7_RouteOneOrTwo ==
  unit.fn = "route_professors" =>
     /\ Len(unit.ret) \in {1, 2}
     /\ \A i \in 1..Len(unit.ret) : \E k \in 1..Len(professors) : professors[k].name = unit.ret[i]
     /\ Len(select_profs(unit.ret)) \in {1, 2}
C7_Witness ==
  /\ unit.fn = "route_professors"
  /\ \A k \in 1..Len(professors) : keyword_score(professors[k], lower(unit.arg)) > 0
  /\ Len(unit.ret) = 2

\* the position of the entry of a title in a result of search_kb, 0 when it is absent
rank_of(results, title) ==
  IF \E i \in 1..Len(results) : results[i].title = title
  THEN CHOOSE i \in 1..Len(results) : results[i].title = title
  ELSE 0

\* C8: for the query "Byzantine fault trading" search_kb returns pbft_consensus and
\* trading_systems both ranked above raft_consensus
C8_ByzantineRanking ==
  (unit.fn = "search_kb" /\ unit.arg = Q_byzantine) =>
     /\ rank_of(unit.ret, "pbft_consensus") > 0
     /\ rank_of(unit.ret, "trading_systems") > 0
     /\ \/ rank_of(unit.ret, "raft_consensus") = 0
        \/ /\ rank_of(unit.ret, "pbft_consensus") < rank_of(unit.ret, "raft_consensus")
           /\ rank_of(unit.ret, "trading_systems") < rank_of(unit.ret, "raft_consensus")

\* C9: for every citation list _fallback_synthesis returns three bullet lines and the
\* terminator; the reference of line i is [i] when the list holds at least i citations
\* and [1] otherwise
C9_FallbackClamped ==
  unit.fn = "fallback_synthesis" =>
     LET lines == split_lines(unit.ret)
         expected(i) == IF i <= Len(unit.citations) THEN ref(i) ELSE ref(1)
     IN  /\ Len(lines) = 4
         /\ \A i \in 1..3 :
              /\ startswith(lines[i], BulletMarker)
              /\ endswith(lines[i], <<" ">> \o expected(i))
              /\ Cardinality(cited_refs(lines[i])) = 1
         /\ lines[4] = DONE
         /\ Len(unit.citations) = 0 => cited_refs(unit.ret) = {<<"1">>}
C9_Witness ==
  /\ unit.fn = "fallback_synthesis"
  /\ Len(unit.citations) = 1
  /\ cited_refs(unit.ret) = {<<"1">>}

has_trigger(text) ==
  \E i \in 1..Len(triggers) : contains(lower(text), triggers[i])

\* C10: a question holding "consensus", "raft" or "pbft" in any case gets the fixed plan
\* of three sub-questions, any other question gets the plan whose one sub-question is the
\* question, and no plan has more than 3 sub-questions
C10_PlanByTrigger ==
  unit.fn = "plan_async" =>
     /\ has_trigger(unit.arg) => unit.ret.subqs = fixed_subqs
     /\ ~has_trigger(unit.arg) => unit.ret.subqs = <<unit.arg>>
     /\ Len(unit.ret.subqs) <= 3
C10_Witness ==
  /\ unit.fn = "plan_async"
  /\ contains(unit.arg, Word_PBFT)
  /\ unit.words = 3
  /\ unit.ret.subqs = fixed_subqs

error_events(events) == {i \in 1..Len(events) : events[i].tag = "ERROR in"}

\* C11: in every state of the recorder, over runs with failed attempts, failed analyses
\* and exceptions caught by ooda_run and over the resets between runs, error_count is
\* the number of error events in the event log
C11_ErrorCountMatchesLog ==
  METRICS.error_count = Cardinality(error_events(METRICS.events))
C11_Witness ==
  /\ hist.runs = 2 /\ pc = "done"
  /\ \E i \in error_events(METRICS.events) : METRICS.events[i].arg[1] = "LLM attempt "
  /\ \E i \in error_events(METRICS.events) : METRICS.events[i].arg[1] = "analyze_"

\* C12: the confidence an Evidence Card stores is in [0, 1]: 0 for a confidence below 0,
\* 1 for one above 1, the confidence itself for one in the range; and every card of a
\* run, built from a reply of the backend or a placeholder, has its confidence in [0, 1]
C12_ConfidenceClamped ==
  /\ unit.fn = "EvidenceCard" =>
       LET confidence == unit.arg[1]
           stored == unit.ret.confidence
       IN  /\ 0 <= stored /\ stored <= 10
           /\ confidence < 0 => stored = 0
           /\ confidence > 10 => stored = 10
           /\ (0 <= confidence /\ confidence <= 10) => stored = confidence
  /\ \A i \in 1..Len(all_evidence) :
       0 <= all_evidence[i].confidence /\ all_evidence[i].confidence <= 10
C12_Witness ==
  /\ pc = "done"
  /\ {all_evidence[i].confidence : i \in 1..Len(all_evidence)} = {0, 3, 5, 10}

\* C13: the report ooda_run substitutes when it catches an exception of a stage is the
\* report _fallback_synthesis returns for the citations the run has accumulated
C13_ExceptReportIsSynthFallback ==
  (raised # "none" /\ pc \in {"display", "done"}) =>
     draft = fallback_synthesis(all_citations)

\* C14: for every max_retries >= 0, a call whose every attempt failed returns the fallback
\* string that holds the role, after exactly max_retries attempts
C14_ExhaustedReturnsFallback ==
  (pc = "returned" /\ requests /\ hist.failed = hist.tries) =>
     /\ llm.result = fallback_response(llm.role)
     /\ contains(llm.result, llm.role)
     /\ hist.tries = llm.max_retries

\* C15: an attempt whose reply has a success status and no response field is a failed
\* attempt: its error event is logged, and the call goes on to retry or returns the
\* fallback string; it does not return the empty text of that reply
C15_NoResponseIsFailure ==
  hist.reply = "no_response" =>
     /\ METRICS.events # <<>>
     /\ METRICS.events[Len(METRICS.events)] = attempt_error(hist.tries)
     /\ hist.failed > 0
     /\ pc = "returned" => llm.result = fallback_response(llm.role)

\* C16: a run that degraded has an entry for it in its event log: at the end of a run
\* that substituted a fallback report (the backend text failed validation, or a stage
\* raised), that put a placeholder card in place of a response it could not parse, or
\* that routed a sub-question to the default pair, the log holds an error event
C16_DegradationsLogged ==
  pc = "done" =>
     LET logged == error_events(METRICS.events) # {}
     IN  /\ (raised # "none" \/ ~format_ok(llm.result)) => logged
         /\ (\E i \in 1..Len(all_evidence) :
                all_evidence[i].rationale = JStr(FallbackGuidance)) => logged
         /\ (raised = "none" /\ \E i \in 1..Len(plan.subqs) :
                prof_scores(lower(plan.subqs[i])) = <<>>) => logged

\* C17: a request of the HTTP driver reports the recorder of its own run: the event log
\* and the error count of its response are the events its run logged and the errors its
\* run counted, whatever another request does meanwhile
C17_RunsIndependent ==
  \A r \in 1..NumRequests :
    reqs[r].pc = "responded" =>
       /\ reqs[r].response.log = reqs[r].own_events
       /\ reqs[r].response.metrics.errors = reqs[r].own_errors

\* C18: analyze_async returns, with 1 or 2 cards that carry the name of the role; for an
\* output that is no JSON list it returns the one placeholder card of confidence 0.5 and
\* logs no error; when a statement raises (a confidence that is no number) it returns the
\* one placeholder card of confidence 0.3 and error_count grows by exactly one
C18_AnalyzeReturnsCards ==
  [][pc = "analyze_ret" =>
       LET prof == Head(selected_profs)
           cards == SubSeq(all_evidence', Len(all_evidence) + 1, Len(all_evidence'))
       IN  /\ pc' = "prof"
           /\ Len(cards) \in {1, 2}
           /\ \A i \in 1..Len(cards) : cards[i].professor = prof.name
           /\ llm.result \notin {Txt_list, Txt_badconf} =>
                /\ Len(cards) = 1
                /\ cards[1].confidence = 5
                /\ cards[1].rationale = JStr(FallbackGuidance)
                /\ METRICS' = METRICS
           /\ llm.result = Txt_badconf =>
                /\ Len(cards) = 1
                /\ cards[1].confidence = 3
                /\ cards[1].rationale = JStr(ErrorFallback)
                /\ METRICS'.error_count = METRICS.error_count + 1
           /\ llm.result = Txt_list =>
                /\ Len(cards) = 2
                /\ METRICS' = METRICS]_vars
C18_Witness ==
  /\ pc = "prof"
  /\ llm.result = Txt_badconf
  /\ all_evidence # <<>>
  /\ all_evidence[Len(all_evidence)].confidence = 3
  /\ METRICS.events[Len(METRICS.events)].tag = "ERROR in"
  /\ \E i \in 1..(Len(all_evidence) - 1) : all_evidence[i].confidence = 5

\* the lines of a text that begin with the bullet marker
marked_lines(text) == {i \in DOMAIN split_lines(text) : startswith(split_lines(text)[i], BulletMarker)}

\* C19: synthesize_async returns the text of the backend call as it is when the text has
\* exactly 3 lines that begin with the bullet marker and, trimmed, ends with DONE, and
\* returns _fallback_synthesis(citations) in every other case; the report of a run whose
\* synthesis call failed at every attempt is that fallback
C19_SynthesisValidates ==
  (pc \in {"display", "done"} /\ raised = "none") =>
     /\ (Cardinality(marked_lines(llm.result)) = 3 /\ endswith(strip(llm.result), DONE))
          => draft = llm.result
     /\ ~(Cardinality(marked_lines(llm.result)) = 3 /\ endswith(strip(llm.result), DONE))
          => draft = fallback_synthesis(all_citations)
     /\ (requests /\ hist.failed = hist.tries) => draft = fallback_synthesis(all_citations)
     /\ ~requests => draft = fallback_synthesis(all_citations)
C19_Witness ==
  /\ pc = "done" /\ raised = "none" /\ requests
  /\ hist.failed = 3 /\ hist.tries = 3
  /\ llm.result = fallback_response(Name_Synthesizer)
  /\ shown.report = fallback_synthesis(all_citations)

\* the citations gather_evidence returned for the first n sub-questions of the plan, one
\* sub-question after the other
RECURSIVE gathered(_)
gathered(n) ==
  IF n = 0 THEN <<>>
  ELSE gathered(n - 1) \o gather_evidence(METRICS, plan.subqs[n]).citations

\* the first occurrences in a sequence, in the order of the sequence
first_occurrences(s) ==
  LET keep == {i \in 1..Len(s) : \A j \in 1..(i - 1) : s[j] # s[i]}
  IN  [k \in 1..Cardinality(keep) |->
         s[CHOOSE i \in keep : Cardinality({j \in keep : j < i}) = k - 1]]

\* the sub-questions whose citations consult_professors has taken in
subqs_gathered ==
  IF pc = "prof" \/ pc = "analyze_ret" \/ (pc \in {"llm", "sleep"} /\ llm.return_to = "analyze_ret")
  THEN subq_i + 1 ELSE subq_i

\* C20: in consult_professors the accumulated citation list holds no string twice and
\* lists the citations gathered so far in the order of their first occurrence (by
\* sub-question, local before external), at every change of the list and whenever a
\* sub-question or the whole loop is over; a step of the run only appends to it, so the
\* 1-indexed number of a citation never changes
C20_CitationsDedupedInOrder ==
  /\ [](/\ \A i, j \in 1..Len(all_citations) :
              all_citations[i] = all_citations[j] => i = j
        /\ pc \in {"subq", "act", "done"} /\ raised = "none"
             => all_citations = first_occurrences(gathered(subqs_gathered)))
  /\ [][/\ is_prefix(all_citations, all_citations')
        /\ all_citations' # all_citations
             => all_citations' = first_occurrences(gathered(subq_i + 1))]_vars
C20_Witness ==
  /\ pc = "done" /\ raised = "none"
  /\ Len(plan.subqs) >= 2
  /\ Len(all_citations) >= 2
  /\ Len(gathered(Len(plan.subqs))) > Len(all_citations)

\* the locators of the local search
is_local(citation) == \E i \in 1..Len(kb) : citation = "local://" \o kb[i].id

role_score(k, subq) == keyword_score(professors[k], lower(subq))
roles_before(k, subq) ==
  {i \in 1..Len(professors) :
     /\ role_score(i, subq) > 0
     /\ \/ role_score(i, subq) > role_score(k, subq)
        \/ (role_score(i, subq) = role_score(k, subq) /\ i < k)}

\* C22: when some role has a keyword score above 0, route_professors returns the roles of
\* score above 0 only, by descending score and, at equal score, in declaration order
\* (Algorithms, Systems, Security, Finance), cut to the first 2; when every role scores 0
\* it returns Prof. Algorithms and Prof. Systems, in that order
C22_RouteRanking ==
  unit.fn = "route_professors" =>
    LET scoring == {k \in 1..Len(professors) : role_score(k, unit.arg) > 0}
    IN  IF scoring = {}
        THEN unit.ret = <<Name_Algorithms, Name_Systems>>
        ELSE /\ Len(unit.ret) = Min(2, Cardinality(scoring))
             /\ \A n \in 1..Len(unit.ret) :
                  \E k \in scoring :
                    /\ unit.ret[n] = professors[k].name
                    /\ Cardinality(roles_before(k, unit.arg)) = n - 1
C22_Witness ==
  /\ unit.fn = "route_professors"
  /\ unit.ret = <<Name_Algorithms, Name_Security>>
  /\ role_score(1, unit.arg) = 1 /\ role_score(3, unit.arg) = 1 /\ role_score(4, unit.arg) = 1
  /\ role_score(2, unit.arg) = 0

\* C23: without the requests library llm_call_async returns the mock string of the role
\* at once, for every max_retries: no attempt, no sleep, no error event, and no field of
\* the metrics recorder changes
C23_MockReturnsAtOnce ==
  /\ [](~requests =>
          /\ pc \notin {"llm", "sleep"}
          /\ hist.posts = 0 /\ hist.tries = 0 /\ hist.failed = 0
          /\ hist.slept_after = <<>>
          /\ error_events(METRICS.events) = {} /\ METRICS.error_count = 0)
  /\ [][(~requests /\ pc = "caller") =>
          /\ pc' = "returned"
          /\ llm'.result = mock_response(llm'.role)
          /\ contains(llm'.result, llm'.role)
          /\ METRICS' = METRICS]_vars
C23_Witness ==
  /\ ~requests /\ pc = "returned"
  /\ llm.max_retries = MaxRetries
  /\ llm.result = mock_response(Name_Synthesizer)
  /\ METRICS = fresh_metrics
  /\ hist.calls = 1 /\ hist.tries = 0

====
